---- MODULE Spec2Model ----
(* LocationService (src/LocationService/app/main.py): an in-memory map from *)
(* orderId to the latest LocationSnapshot, written by POST /location/updates *)
(* and read by GET /location/track/{orderId}.                               *)
(*                                                                          *)
(* Optional[T] values are modelled as sets: None is {} and a present value  *)
(* x is {x}.  Latitudes, longitudes and speeds are integers; a datetime is  *)
(* a record of its wall-clock reading (in hours) and its tzinfo (an         *)
(* Optional UTC offset in hours).                                           *)
EXTENDS Integers, FiniteSets, Sequences, TLC

VARIABLES store, last, replaced, lastOp, resp, pc, req, local, seen

vars == <<store, last, replaced, lastOp, resp, pc, req, local, seen>>

None == {}

Some(x) == {x}

(* ---- bounds of the model ---- *)

\* datetime.min .. datetime.max, scaled down to the wall-clock hours 0..MaxWall
MaxWall == 1

OrderIds == {"O1", "O2"}

CourierIds == {"C1", "C2"}

Workers == {"w1", "w2"}

TzOffsets == {1}

(* ---- program constants ---- *)

LatMin == -90

LatMax == 90

LngMin == -180

LngMax == 180

EtaPlaceholder == 10

StatusAccepted == 202

StatusNotFound == 404

NotFoundDetail == "Location not found for orderId"

(* ---- request payloads ---- *)

Walls == 0..MaxWall

Datetimes == [wall : Walls, tzinfo : {None} \cup {Some(z) : z \in TzOffsets}]

SouthWest == [lat |-> LatMin, lng |-> LngMin]

NorthEast == [lat |-> LatMax, lng |-> LngMax]

Speeds == {None, Some(0), Some(5), Some(7)}

\* every combination of acceptable field values for the first order
UpdatesO1 ==
    { u \in [orderId : {"O1"}, courierId : CourierIds, position : {SouthWest, NorthEast},
             bearing : {None}, speedMps : Speeds, timestamp : Datetimes] :
        \A z \in u.timestamp.tzinfo : (u.timestamp.wall - z) \in Walls }

\* two payloads for a second order, one per courier
UpdatesO2 ==
    { [orderId |-> "O2", courierId |-> "C2", position |-> SouthWest, bearing |-> None,
       speedMps |-> None, timestamp |-> [wall |-> 0, tzinfo |-> Some(0)]],
      [orderId |-> "O2", courierId |-> "C1", position |-> NorthEast, bearing |-> Some(90),
       speedMps |-> Some(5), timestamp |-> [wall |-> 1, tzinfo |-> Some(1)]] }

\* payloads that break exactly one field constraint
BadUpdates ==
    { [orderId |-> "O1", courierId |-> "C1", position |-> ps[1], bearing |-> None,
       speedMps |-> ps[2], timestamp |-> [wall |-> 0, tzinfo |-> None]] :
         ps \in
           ({ [lat |-> LatMax + 1, lng |-> LngMax], [lat |-> LatMin - 1, lng |-> LngMin],
              [lat |-> LatMax, lng |-> LngMax + 1], [lat |-> LatMin, lng |-> LngMin - 1] }
              \X {Some(5)})
           \cup ({NorthEast} \X {Some(-1)}) }

\* payloads whose timestamp has no UTC reading inside datetime.min .. datetime.max
OverflowUpdates ==
    { [orderId |-> o, courierId |-> "C1", position |-> NorthEast, bearing |-> None,
       speedMps |-> Some(5), timestamp |-> [wall |-> 0, tzinfo |-> Some(1)]] :
         o \in OrderIds }

Updates == UpdatesO1 \cup UpdatesO2 \cup BadUpdates \cup OverflowUpdates

\* the payloads used when requests are interleaved: two updates of one order
\* that differ in every snapshot field, one update of another order, one
\* rejected payload
ConcUpdates ==
    { u \in Updates :
        \/ /\ u.orderId = "O1" /\ u.courierId = "C1" /\ u.timestamp.tzinfo = None
           /\ \/ u.position = SouthWest /\ u.timestamp.wall = 1 /\ u.speedMps = None
              \/ u.position = NorthEast /\ u.timestamp.wall = 0 /\ u.speedMps = Some(5)
              \/ u.speedMps = Some(-1)
        \/ u.orderId = "O2" /\ u.speedMps = None
        \/ u.orderId = "O2" /\ u \in OverflowUpdates }

(* ---- GeoPoint / LocationUpdate field constraints ---- *)

\* the ranges taken as exclusive
GeoPointValidExclusive(p) ==
    /\ p.lat > LatMin /\ p.lat < LatMax
    /\ p.lng > LngMin /\ p.lng < LngMax

GeoPointValid(p) ==
    /\ p.lat >= LatMin /\ p.lat <= LatMax
    /\ p.lng >= LngMin /\ p.lng <= LngMax

\* gt=0 in place of ge=0
SpeedValidPositive(s) == \A v \in s : v > 0

SpeedValid(s) == \A v \in s : v >= 0

FieldsValid(u) == GeoPointValid(u.position) /\ SpeedValid(u.speedMps)

(* ---- LocationUpdate.ensure_timezone ---- *)

\* v.astimezone(timezone.utc) raises OverflowError when the UTC reading
\* falls outside datetime.min .. datetime.max
AstimezoneOverflows(v) ==
    \E z \in v.tzinfo : (v.wall - z) \notin Walls

\* the offset of an aware timestamp dropped instead of converted
ensure_timezone_replace(v) == [v EXCEPT !.tzinfo = Some(0)]

ensure_timezone(v) ==
    IF v.tzinfo = None
    THEN [v EXCEPT !.tzinfo = Some(0)]
    ELSE [wall |-> v.wall - (CHOOSE z \in v.tzinfo : TRUE), tzinfo |-> Some(0)]

(* ---- _estimate_eta_minutes ---- *)

\* "< 0" in place of "<= 0"
_estimate_eta_minutes_lt(speed_mps) ==
    IF speed_mps = None \/ (\E v \in speed_mps : v < 0)
    THEN None
    ELSE Some(EtaPlaceholder)

_estimate_eta_minutes(speed_mps) ==
    IF speed_mps = None \/ (\E v \in speed_mps : v <= 0)
    THEN None
    ELSE Some(EtaPlaceholder)

(* ---- LocationSnapshot(...) as built by post_location_update ---- *)

LocationSnapshot(update) ==
    [position   |-> update.position,
     timestamp  |-> ensure_timezone(update.timestamp),
     etaMinutes |-> _estimate_eta_minutes(update.speedMps)]

(* ---- _LOCATION_STORE operations ---- *)

\* an existing entry updated field by field, an absent ETA keeping the old one
StoreSetMergeEta(d, k, v) ==
    [x \in (DOMAIN d) \cup {k} |->
        IF x # k THEN d[x]
        ELSE IF k \in DOMAIN d /\ v.etaMinutes = None
             THEN [v EXCEPT !.etaMinutes = d[k].etaMinutes]
             ELSE v]

\* an existing entry kept when its timestamp is later than the new one
StoreSetIfNewer(d, k, v) ==
    [x \in (DOMAIN d) \cup {k} |->
        IF x # k THEN d[x]
        ELSE IF k \in DOMAIN d /\ d[k].timestamp.wall > v.timestamp.wall
             THEN d[k]
             ELSE v]

\* the map rebound to a new one-entry dict
StoreSetRebind(d, k, v) == [x \in {k} |-> v]

\* the new snapshot written to every entry of the map
StoreSetAll(d, k, v) == [x \in (DOMAIN d) \cup {k} |-> v]

\* an existing entry mutated in place, its position left as it was
StoreSetKeepPosition(d, k, v) ==
    [x \in (DOMAIN d) \cup {k} |->
        IF x # k THEN d[x]
        ELSE IF k \in DOMAIN d THEN [v EXCEPT !.position = d[k].position] ELSE v]

\* _LOCATION_STORE[k] = v
StoreSet(d, k, v) ==
    [x \in (DOMAIN d) \cup {k} |-> IF x = k THEN v ELSE d[x]]

\* _LOCATION_STORE.get(k)
StoreGet(d, k) == IF k \in DOMAIN d THEN Some(d[k]) ELSE None

\* a snapshot without an ETA taken as falsy too
IsFalsyNoEta(snapshot) == snapshot = None \/ (\E x \in snapshot : x.etaMinutes = None)

\* "not snapshot": a model instance is always truthy, only None is falsy
IsFalsy(snapshot) == snapshot = None

EmptyStore == [x \in {} |-> None]

NoOp == [op |-> "none", orderId |-> "", update |-> None]

NoResp == [status |-> 0, body |-> None]

Init ==
    /\ store = EmptyStore
    /\ last = [o \in OrderIds |-> None]
    /\ replaced = [orderId |-> "", snapshot |-> None]
    /\ lastOp = NoOp
    /\ resp = NoResp
    /\ pc = [w \in Workers |-> "idle"]
    /\ req = [w \in Workers |-> NoOp]
    /\ local = [w \in Workers |-> None]
    /\ seen = [w \in Workers |-> None]

(* ---- POST /location/updates, one request handled start to end ---- *)

SubmitRejected(u) ==
    /\ ~FieldsValid(u)
    /\ resp' = [status |-> 422, body |-> Some([detail |-> "validation error"])]
    /\ lastOp' = [op |-> "submit", orderId |-> u.orderId, update |-> Some(u)]
    /\ UNCHANGED <<store, last, replaced>>

SubmitOverflow(u) ==
    /\ FieldsValid(u)
    /\ AstimezoneOverflows(u.timestamp)
    /\ resp' = [status |-> 500, body |-> Some([detail |-> "Internal Server Error"])]
    /\ lastOp' = [op |-> "submit", orderId |-> u.orderId, update |-> Some(u)]
    /\ UNCHANGED <<store, last, replaced>>

SubmitAccepted(u) ==
    /\ FieldsValid(u)
    /\ ~AstimezoneOverflows(u.timestamp)
    /\ store' = StoreSet(store, u.orderId, LocationSnapshot(u))
    /\ resp' = [status |-> StatusAccepted, body |-> Some([status |-> "accepted"])]
    /\ last' = [last EXCEPT ![u.orderId] = Some(u)]
    /\ replaced' = [orderId |-> u.orderId, snapshot |-> StoreGet(store, u.orderId)]
    /\ lastOp' = [op |-> "submit", orderId |-> u.orderId, update |-> Some(u)]

post_location_update ==
    \E u \in Updates :
        /\ \/ SubmitRejected(u)
           \/ SubmitOverflow(u)
           \/ SubmitAccepted(u)
        /\ UNCHANGED <<pc, req, local, seen>>

(* ---- GET /location/track/{orderId}, one request handled start to end ---- *)

GetFound(orderId) ==
    /\ ~IsFalsy(StoreGet(store, orderId))
    /\ resp' = [status |-> 200, body |-> StoreGet(store, orderId)]

GetNotFound(orderId) ==
    /\ IsFalsy(StoreGet(store, orderId))
    /\ resp' = [status |-> StatusNotFound, body |-> Some([detail |-> NotFoundDetail])]

get_latest_location ==
    \E orderId \in OrderIds :
        /\ \/ GetFound(orderId)
           \/ GetNotFound(orderId)
        /\ lastOp' = [op |-> "get", orderId |-> orderId, update |-> None]
        /\ UNCHANGED <<store, last, replaced, pc, req, local, seen>>

Next == post_location_update \/ get_latest_location

Spec == Init /\ [][Next]_vars

(* ---- the same handlers run by threadpool workers, one statement at a time ---- *)

\* request validation fails before the handler body runs
WorkerSubmitRejected(w, u) ==
    /\ pc[w] = "idle"
    /\ ~FieldsValid(u) \/ AstimezoneOverflows(u.timestamp)
    /\ resp' = IF ~FieldsValid(u)
               THEN [status |-> 422, body |-> Some([detail |-> "validation error"])]
               ELSE [status |-> 500, body |-> Some([detail |-> "Internal Server Error"])]
    /\ UNCHANGED <<store, last, replaced, lastOp, pc, req, local, seen>>

\* snapshot = LocationSnapshot(...)
WorkerBuild(w, u) ==
    /\ pc[w] = "idle"
    /\ FieldsValid(u) /\ ~AstimezoneOverflows(u.timestamp)
    /\ pc' = [pc EXCEPT ![w] = "built"]
    /\ req' = [req EXCEPT ![w] = [op |-> "submit", orderId |-> u.orderId, update |-> Some(u)]]
    /\ local' = [local EXCEPT ![w] = Some(LocationSnapshot(u))]
    /\ UNCHANGED <<store, last, replaced, lastOp, resp, seen>>

\* _LOCATION_STORE[update.orderId] = snapshot; return {"status": "accepted"}
WorkerStore(w) ==
    /\ pc[w] = "built"
    /\ store' = StoreSet(store, req[w].orderId, CHOOSE x \in local[w] : TRUE)
    /\ last' = [last EXCEPT ![req[w].orderId] = req[w].update]
    /\ resp' = [status |-> StatusAccepted, body |-> Some([status |-> "accepted"])]
    /\ pc' = [pc EXCEPT ![w] = "idle"]
    /\ req' = [req EXCEPT ![w] = NoOp]
    /\ local' = [local EXCEPT ![w] = None]
    /\ UNCHANGED <<replaced, lastOp, seen>>

\* snapshot = _LOCATION_STORE.get(orderId)
WorkerLookup(w, orderId) ==
    /\ pc[w] = "idle"
    /\ pc' = [pc EXCEPT ![w] = "looked"]
    /\ req' = [req EXCEPT ![w] = [op |-> "get", orderId |-> orderId, update |-> None]]
    /\ local' = [local EXCEPT ![w] = StoreGet(store, orderId)]
    /\ seen' = [seen EXCEPT ![w] = last[orderId]]
    /\ UNCHANGED <<store, last, replaced, lastOp, resp>>

\* if not snapshot: raise HTTPException(404, ...); return snapshot
WorkerReturn(w) ==
    /\ pc[w] = "looked"
    /\ resp' = IF IsFalsy(local[w])
               THEN [status |-> StatusNotFound, body |-> Some([detail |-> NotFoundDetail])]
               ELSE [status |-> 200, body |-> local[w]]
    /\ pc' = [pc EXCEPT ![w] = "idle"]
    /\ req' = [req EXCEPT ![w] = NoOp]
    /\ local' = [local EXCEPT ![w] = None]
    /\ seen' = [seen EXCEPT ![w] = None]
    /\ UNCHANGED <<store, last, replaced, lastOp>>

NextConc ==
    \E w \in Workers :
        \/ \E u \in ConcUpdates : WorkerSubmitRejected(w, u)
        \/ \E u \in ConcUpdates : WorkerBuild(w, u)
        \/ WorkerStore(w)
        \/ \E orderId \in OrderIds : WorkerLookup(w, orderId)
        \/ WorkerReturn(w)

SpecConc == Init /\ [][NextConc]_vars

(* ---- the documented contract, written from its own wording ---- *)

Provided(opt) == opt # {}

ValueOf(opt) == CHOOSE x \in opt : TRUE

\* a naive timestamp keeps its wall-clock fields; an aware one keeps its instant
UtcTimestampOf(ts) ==
    IF Provided(ts.tzinfo)
    THEN [wall |-> ts.wall - ValueOf(ts.tzinfo), tzinfo |-> {0}]
    ELSE [wall |-> ts.wall, tzinfo |-> {0}]

EtaOf(speed) == IF Provided(speed) /\ ValueOf(speed) > 0 THEN {10} ELSE {}

SnapshotOf(u) ==
    [position |-> u.position, timestamp |-> UtcTimestampOf(u.timestamp),
     etaMinutes |-> EtaOf(u.speedMps)]

ViolatesConstraint(u) ==
    \/ u.position.lat < -90 \/ u.position.lat > 90
    \/ u.position.lng < -180 \/ u.position.lng > 180
    \/ Provided(u.speedMps) /\ ValueOf(u.speedMps) < 0

ConvertibleToUtc(ts) ==
    ~Provided(ts.tzinfo) \/ (ts.wall - ValueOf(ts.tzinfo)) \in 0..MaxWall

ValidUpdate(u) == ~ViolatesConstraint(u) /\ ConvertibleToUtc(u.timestamp)

Entry(d, o) == IF o \in DOMAIN d THEN {d[o]} ELSE {}

\* C1: a getLatest of an order answers 200 with exactly the snapshot of the
\* update that arrived last for that order: its position, its UTC timestamp
\* and the ETA of its speed; nothing of an earlier update survives.
C1_OverwriteNotMerge ==
    (lastOp.op = "get" /\ Provided(last[lastOp.orderId]))
        => resp = [status |-> 200,
                   body |-> {SnapshotOf(ValueOf(last[lastOp.orderId]))}]

\* U1 had a speed > 0, U2 omits the speed and moves; the read shows U2 alone
C1_Witness ==
    /\ lastOp.op = "get"
    /\ replaced.orderId = lastOp.orderId
    /\ Provided(replaced.snapshot)
    /\ ValueOf(replaced.snapshot).etaMinutes = {10}
    /\ Provided(last[lastOp.orderId])
    /\ ValueOf(last[lastOp.orderId]).speedMps = {}
    /\ ValueOf(last[lastOp.orderId]).position # ValueOf(replaced.snapshot).position
    /\ resp.status = 200
    /\ ValueOf(resp.body).etaMinutes = {}

\* C2: getLatest answers 404 with the fixed detail exactly when no valid
\* update of that order has been accepted so far, and otherwise answers 200
\* with the stored snapshot.
C2_NotFoundIffNeverSubmitted ==
    lastOp.op = "get" =>
        IF Provided(last[lastOp.orderId])
        THEN /\ resp.status = 200
             /\ lastOp.orderId \in DOMAIN store
             /\ resp.body = {store[lastOp.orderId]}
        ELSE resp = [status |-> 404,
                     body |-> {[detail |-> "Location not found for orderId"]}]

\* a 404 for one order while another order has a snapshot
C2_Witness ==
    /\ lastOp.op = "get"
    /\ resp.status = 404
    /\ ~Provided(last[lastOp.orderId])
    /\ DOMAIN store # {}

C4_LastWriteWinsByArrival ==
    \A o \in OrderIds :
        Provided(last[o]) => (o \in DOMAIN store /\ store[o] = SnapshotOf(ValueOf(last[o])))

\* an update with an earlier timestamp has replaced a later one
C4_Witness ==
    /\ lastOp.op = "submit"
    /\ resp.status = 202
    /\ replaced.orderId = lastOp.orderId
    /\ Provided(replaced.snapshot)
    /\ ValueOf(replaced.snapshot).timestamp.wall > store[lastOp.orderId].timestamp.wall

\* C5: an accepted update stores etaMinutes 10 when its speed is given and
\* > 0, and null when the speed is omitted or 0.
C5_EtaPlaceholder ==
    (lastOp.op = "submit" /\ resp.status = 202) =>
        LET u == ValueOf(lastOp.update)
            e == store[u.orderId].etaMinutes
        IN  /\ (Provided(u.speedMps) /\ ValueOf(u.speedMps) > 0) => e = {10}
            /\ (~Provided(u.speedMps) \/ ValueOf(u.speedMps) = 0) => e = {}

\* speed 7 gives 10 although the snapshot it replaces had no ETA
C5_Witness ==
    /\ lastOp.op = "submit"
    /\ resp.status = 202
    /\ ValueOf(lastOp.update).speedMps = {7}
    /\ store[lastOp.orderId].etaMinutes = {10}
    /\ replaced.orderId = lastOp.orderId
    /\ Provided(replaced.snapshot)
    /\ ValueOf(replaced.snapshot).etaMinutes = {}

\* C6: an order that has had an update accepted stays in the store across
\* every later request, and a getLatest of it answers 200.
C6_NeverDeleted ==
    [][\A o \in OrderIds :
          (Provided(last[o]) \/ o \in DOMAIN store) =>
              /\ o \in DOMAIN store'
              /\ (lastOp'.op = "get" /\ lastOp'.orderId = o) => resp'.status = 200]_vars

\* an order still readable after the latest write went to another order
C6_Witness ==
    /\ lastOp.op = "get"
    /\ resp.status = 200
    /\ replaced.orderId \in OrderIds \ {lastOp.orderId}

\* C7: every stored timestamp has a zero UTC offset; a naive input keeps its
\* wall-clock fields and an aware input keeps its instant.
C7_StoredTimestampsUtc ==
    \A o \in DOMAIN store :
        /\ store[o].timestamp.tzinfo = {0}
        /\ Provided(last[o])
        /\ LET t == ValueOf(last[o]).timestamp
           IN  IF Provided(t.tzinfo)
               THEN store[o].timestamp.wall - 0 = t.wall - ValueOf(t.tzinfo)
               ELSE store[o].timestamp.wall = t.wall

\* an input at offset +1 stored one hour earlier at offset 0
C7_Witness ==
    \E o \in DOMAIN store :
        /\ ValueOf(last[o]).timestamp = [wall |-> 1, tzinfo |-> {1}]
        /\ store[o].timestamp = [wall |-> 0, tzinfo |-> {0}]

C9_NoTornSnapshot ==
    /\ DOMAIN store = {o \in OrderIds : Provided(last[o])}
    /\ \A o \in DOMAIN store : store[o] = SnapshotOf(ValueOf(last[o]))
    /\ \A w \in Workers :
          (pc[w] = "looked" /\ Provided(local[w])) =>
              /\ Provided(seen[w])
              /\ ValueOf(seen[w]).orderId = req[w].orderId
              /\ local[w] = {SnapshotOf(ValueOf(seen[w]))}

\* a read holds one snapshot of an order, the map already another, and a
\* write of a third request to the same order is pending
C9_Witness ==
    \E w1, w2 \in Workers :
        /\ pc[w1] = "built" /\ pc[w2] = "looked"
        /\ req[w1].orderId = req[w2].orderId
        /\ Provided(local[w2])
        /\ local[w2] # {store[req[w2].orderId]}
        /\ local[w1] # {store[req[w1].orderId]}

\* C10: a submit changes no entry but its own order's, and a getLatest,
\* found or not found, changes nothing in the store.
C10_FrameEffect ==
    [][/\ lastOp'.op = "submit" =>
            \A b \in OrderIds \ {lastOp'.orderId} : Entry(store', b) = Entry(store, b)
       /\ lastOp'.op = "get" => store' = store]_vars

\* a write to one order next to a different snapshot of another order
C10_Witness ==
    /\ lastOp.op = "submit"
    /\ resp.status = 202
    /\ \E b \in DOMAIN store \ {lastOp.orderId} :
          store[b] # store[lastOp.orderId]

====
